---------------------------- MODULE Spec2Model ----------------------------
(***************************************************************************)
(* Model of stats/cloud/client.go: the Load Impact cloud API client.       *)
(*                                                                         *)
(* NewClient resolves the host and builds the base URL; Do sets the three  *)
(* mandated headers, calls the transport once, closes the response body    *)
(* through a deferred call, classifies the status with checkResponse and   *)
(* decodes the body into the caller's target.                              *)
(*                                                                         *)
(* A response body is a sequence of JSON tokens (the lexical level is      *)
(* abstracted: one token stands for the bytes of one JSON lexeme, "junk"   *)
(* for a byte that starts no JSON value, "ws" for white space).            *)
(* json.Decoder.Decode is modelled on that sequence as encoding/json does  *)
(* it: a scan of the first top-level value, then the store into the typed  *)
(* target.                                                                 *)
(***************************************************************************)
EXTENDS Integers, Sequences, FiniteSets

VARIABLES
    env,      \* value of K6CLOUD_HOST in the process environment ("" when unset)
    args,     \* what the caller passes: NewClient's token, host and version, and the
              \* header values it set on the request before Do
    client,   \* the *Client built by NewClient
    req,      \* the *http.Request passed to Do: its Header map
    v,        \* the v argument of Do: its kind and the value it pointed to at the call
    out,      \* the value v points to
    server,   \* what the transport will answer: failure, or status, body and Close result
    resp,     \* the *http.Response Do holds
    pc,       \* position of the program
    err,      \* Do's local variable err
    ret,      \* the error value Do returned
    wire,     \* the requests handed to the transport, in order
    trace     \* the events of the run, in order

vars == <<env, args, client, req, v, out, server, resp, pc, err, ret, wire, trace>>

-----------------------------------------------------------------------------
(* Bounds *)

\* Every token sequence of at most this length is a response body of the model.
MaxBodyLen == 2

-----------------------------------------------------------------------------
(* Program constants *)

\* TIMEOUT = 10 * time.Second, in seconds.
TIMEOUT == 10

DefaultHost == "https://ingest.loadimpact.com"

-----------------------------------------------------------------------------
(* JSON tokens *)

Tok(k) == [k |-> k, s |-> "", n |-> 0]
Str(s) == [k |-> "str", s |-> s, n |-> 0]
\* A number literal: "int" an integer literal that fits Go's int, "frac" a
\* literal with a fraction or exponent (n.5), "huge" an integer literal
\* beyond the range of int.
Num(n, form) == [k |-> "num", s |-> form, n |-> n]

LBrace == Tok("{")
RBrace == Tok("}")
LBrack == Tok("[")
RBrack == Tok("]")
Colon  == Tok(":")
Comma  == Tok(",")
Null   == Tok("null")
True   == Tok("bool")
WS     == Tok("ws")
Junk   == Tok("junk")

\* The tokens from which every short body is built.
Alphabet ==
    { LBrace, RBrace, Colon, Comma, Null, WS, Junk,
      Str("error"), Str("m"), Num(7, "int") }

RECURSIVE SeqsUpTo(_, _)
SeqsUpTo(S, n) ==
    IF n = 0 THEN { <<>> }
    ELSE LET shorter == SeqsUpTo(S, n - 1)
         IN  shorter \cup { Append(q, x) : q \in shorter, x \in S }

\* {"error":{"message":m,"code":c}}
ErrorBody(m, c) ==
    << LBrace, Str("error"), Colon,
       LBrace, Str("message"), Colon, m, Comma, Str("code"), Colon, c, RBrace,
       RBrace >>

\* {"message":m,"code":c}
FlatBody(m, c) ==
    << LBrace, Str("message"), Colon, m, Comma, Str("code"), Colon, c, RBrace >>

Messages == { "m", "" }
Codes    == { 7, 0, -1 }

LongBodies ==
    { ErrorBody(Str(m), Num(c, "int")) : m \in Messages, c \in Codes }
    \cup { FlatBody(Str(m), Num(c, "int")) : m \in Messages, c \in Codes }
    \cup {
      \* {"error":{"message":"m"}}   {"error":{"code":7}}   {"error":{}}
      << LBrace, Str("error"), Colon, LBrace, Str("message"), Colon, Str("m"), RBrace, RBrace >>,
      << LBrace, Str("error"), Colon, LBrace, Str("code"), Colon, Num(7, "int"), RBrace, RBrace >>,
      << LBrace, Str("error"), Colon, LBrace, RBrace, RBrace >>,
      \* {"foo":1}   {"error":null}   {"error":7}   {"error":"m"}   {"error":[]}
      << LBrace, Str("foo"), Colon, Num(1, "int"), RBrace >>,
      << LBrace, Str("error"), Colon, Null, RBrace >>,
      << LBrace, Str("error"), Colon, Num(7, "int"), RBrace >>,
      << LBrace, Str("error"), Colon, Str("m"), RBrace >>,
      << LBrace, Str("error"), Colon, LBrack, RBrack, RBrace >>,
      \* wrong member types: message a number, code a string, a fraction, out of range
      ErrorBody(Num(7, "int"), Num(7, "int")),
      ErrorBody(Str("m"), Str("7")),
      ErrorBody(Str("m"), Num(7, "frac")),
      ErrorBody(Str("m"), Num(7, "huge")),
      ErrorBody(Null, Null),
      ErrorBody(Str("m"), True),
      FlatBody(Num(7, "int"), Num(7, "int")),
      FlatBody(Str("m"), Str("7")),
      \* keys in another case, an unknown member beside the known ones
      << LBrace, Str("ERROR"), Colon, LBrace, Str("Message"), Colon, Str("m"), Comma,
         Str("CODE"), Colon, Num(7, "int"), RBrace, RBrace >>,
      << LBrace, Str("foo"), Colon, LBrace, Str("error"), Colon, Num(1, "int"), RBrace, Comma,
         Str("error"), Colon, LBrace, Str("code"), Colon, Num(7, "int"), RBrace, RBrace >>,
      \* a member given twice, the later one of the wrong type
      << LBrace, Str("message"), Colon, Str("m"), Comma, Str("message"), Colon, Num(7, "int"), RBrace >>,
      \* cut short, a trailing comma, text after the value, white space around it
      << LBrace, Str("error"), Colon, LBrace, Str("message"), Colon, Str("m") >>,
      << LBrace, Str("error"), Colon, Num(7, "int"), Comma, RBrace >>,
      << LBrace, Str("error"), Colon, LBrace, RBrace, RBrace, Junk >>,
      << WS, LBrace, WS, Str("error"), WS, Colon, WS, LBrace, RBrace, WS, RBrace, WS >>,
      << LBrack, Num(7, "int"), Comma, Str("m"), RBrack >>,
      << LBrack, Num(7, "int"), Comma, RBrack >>,
      << WS, WS, WS >>,
      << Junk, Junk, Junk >>
    }

Bodies == SeqsUpTo(Alphabet, MaxBodyLen) \cup LongBodies

-----------------------------------------------------------------------------
(* Decode targets: the typed Go value a body is decoded into *)

TString(s) == [ty |-> "string", s |-> s, n |-> 0, f |-> <<>>]
TInt(n)    == [ty |-> "int", s |-> "", n |-> n, f |-> <<>>]
\* f maps each field's json name to the field's value.
TStruct(f) == [ty |-> "struct", s |-> "", n |-> 0, f |-> f]
\* The invalid reflect.Value the decoder passes to skip a value.
TSkip      == [ty |-> "skip", s |-> "", n |-> 0, f |-> <<>>]

\* struct { Message string `json:"message"`; Code int `json:"code"` }
ErrorData(m, c) == TStruct([message |-> TString(m), code |-> TInt(c)])

\* errorStruct := &struct { ErrorData struct{...} `json:"error"` }{}
errorStruct == TStruct([error |-> ErrorData("", 0)])

-----------------------------------------------------------------------------
(* json.NewDecoder(body).Decode(target) *)

Scanned(st, next) == [st |-> st, next |-> next]

RECURSIVE ScanValue(_, _), ScanMembers(_, _, _), ScanElems(_, _, _)

\* The scanner over the value that starts at t[i]: "ok" with the position
\* after the value, "eof" when the input ends inside it, "syntax" at the
\* first token no JSON value admits there.
ScanValue(t, i) ==
    IF i > Len(t) THEN Scanned("eof", i)
    ELSE IF t[i].k \in {"str", "num", "null", "bool"} THEN Scanned("ok", i + 1)
    ELSE IF t[i].k = "{" THEN ScanMembers(t, i + 1, TRUE)
    ELSE IF t[i].k = "[" THEN ScanElems(t, i + 1, TRUE)
    ELSE Scanned("syntax", i)

\* Inside an object, at a key; first: right after the opening brace.
ScanMembers(t, i, first) ==
    IF i > Len(t) THEN Scanned("eof", i)
    ELSE IF first /\ t[i].k = "}" THEN Scanned("ok", i + 1)
    ELSE IF t[i].k # "str" THEN Scanned("syntax", i)
    ELSE IF i + 1 > Len(t) THEN Scanned("eof", i + 1)
    ELSE IF t[i + 1].k # ":" THEN Scanned("syntax", i + 1)
    ELSE LET r == ScanValue(t, i + 2)
         IN  IF r.st # "ok" THEN r
             ELSE IF r.next > Len(t) THEN Scanned("eof", r.next)
             ELSE IF t[r.next].k = "," THEN ScanMembers(t, r.next + 1, FALSE)
             ELSE IF t[r.next].k = "}" THEN Scanned("ok", r.next + 1)
             ELSE Scanned("syntax", r.next)

\* Inside an array, at an element; first: right after the opening bracket.
ScanElems(t, i, first) ==
    IF i > Len(t) THEN Scanned("eof", i)
    ELSE IF first /\ t[i].k = "]" THEN Scanned("ok", i + 1)
    ELSE LET r == ScanValue(t, i)
         IN  IF r.st # "ok" THEN r
             ELSE IF r.next > Len(t) THEN Scanned("eof", r.next)
             ELSE IF t[r.next].k = "," THEN ScanElems(t, r.next + 1, FALSE)
             ELSE IF t[r.next].k = "]" THEN Scanned("ok", r.next + 1)
             ELSE Scanned("syntax", r.next)

\* Struct field names match a key exactly or, failing that, under case folding.
Fold(s) ==
    CASE s \in {"ERROR", "Error"}     -> "error"
      [] s \in {"MESSAGE", "Message"} -> "message"
      [] s \in {"CODE", "Code"}       -> "code"
      [] OTHER                        -> s

FieldFor(tv, key) ==
    IF key \in DOMAIN tv.f THEN key
    ELSE IF Fold(key) \in DOMAIN tv.f THEN Fold(key)
    ELSE ""

Stored(next, tv, e) == [next |-> next, tv |-> tv, err |-> e]

\* A literal token stored into a target: null changes nothing, a string fits
\* a string, an integer literal in range fits an int; anything else is an
\* UnmarshalTypeError and leaves the target as it was.
LiteralStore(tok, tv) ==
    IF tv.ty = "skip" \/ tok.k = "null" THEN [tv |-> tv, err |-> "nil"]
    ELSE IF tok.k = "str" /\ tv.ty = "string"
        THEN [tv |-> [tv EXCEPT !.s = tok.s], err |-> "nil"]
    ELSE IF tok.k = "num" /\ tok.s = "int" /\ tv.ty = "int"
        THEN [tv |-> [tv EXCEPT !.n = tok.n], err |-> "nil"]
    ELSE [tv |-> tv, err |-> "UnmarshalTypeError"]

RECURSIVE DecodeValue(_, _, _), DecodeMembers(_, _, _, _)

\* The store of the (already scanned) value at t[i] into tv.  The first type
\* error is kept and the rest of the value is still decoded.
DecodeValue(t, i, tv) ==
    IF t[i].k \in {"{", "["} THEN
        IF tv.ty = "skip" THEN Stored(ScanValue(t, i).next, tv, "nil")
        ELSE IF t[i].k = "{" /\ tv.ty = "struct" THEN DecodeMembers(t, i + 1, tv, "nil")
        ELSE Stored(ScanValue(t, i).next, tv, "UnmarshalTypeError")
    ELSE LET r == LiteralStore(t[i], tv)
         IN  Stored(i + 1, r.tv, r.err)

DecodeMembers(t, i, tv, e) ==
    IF t[i].k = "}" THEN Stored(i + 1, tv, e)
    ELSE LET field == FieldFor(tv, t[i].s)
             r     == DecodeValue(t, i + 2, IF field = "" THEN TSkip ELSE tv.f[field])
             tv2   == IF field = "" THEN tv ELSE [tv EXCEPT !.f[field] = r.tv]
             e2    == IF e # "nil" THEN e ELSE r.err
         IN  IF t[r.next].k = "," THEN DecodeMembers(t, r.next + 1, tv2, e2)
             ELSE Stored(r.next + 1, tv2, e2)

NonSpace(body) == SelectSeq(body, LAMBDA tok : tok.k # "ws")

\* Decode reads the first JSON value of the body and stores it into the
\* target: io.EOF when the body holds nothing but white space,
\* io.ErrUnexpectedEOF when it ends inside the value, a SyntaxError at a
\* token that fits no value; what follows the value is not looked at.  A
\* target that is no pointer is an InvalidUnmarshalError.
Decode(body, tv, isPtr) ==
    LET t  == NonSpace(body)
        sc == ScanValue(t, 1)
    IN  IF t = <<>> THEN [err |-> "io.EOF", tv |-> tv]
        ELSE IF sc.st = "eof" THEN [err |-> "io.ErrUnexpectedEOF", tv |-> tv]
        ELSE IF sc.st = "syntax" THEN [err |-> "SyntaxError", tv |-> tv]
        ELSE IF ~isPtr THEN [err |-> "InvalidUnmarshalError", tv |-> tv]
        ELSE LET r == DecodeValue(t, 1, tv)
             IN  [err |-> r.err, tv |-> r.tv]

-----------------------------------------------------------------------------
(* Error values *)

Error(kind) ==
    [kind |-> kind, text |-> "", cause |-> "nil", Message |-> "", Code |-> 0, Response |-> 0]

nil == Error("nil")

ErrNotAuthenticated == Error("ErrNotAuthenticated")
ErrNotAuthorized    == Error("ErrNotAuthorized")

\* What c.client.Do returns when the exchange fails (connection, timeout).
TransportError == Error("transport")

\* errors.Wrap(err, message)
Wrap(e, message) == [Error("Wrapped") EXCEPT !.text = message, !.cause = e]

\* &ErrorResponse{Response: r, Message: ..., Code: ...}
ErrorResponse(r, message, code) ==
    [Error("ErrorResponse") EXCEPT !.Response = r.id, !.Message = message, !.Code = code]

\* An error of encoding/json or io, as an error value.
JSONError(e) == Error(e)

-----------------------------------------------------------------------------
(* NewClient *)

NoClient == [client |-> [Timeout |-> 0], token |-> "", baseURL |-> "", version |-> ""]

\* The host argument wins over the environment.
NewClient_ArgumentFirst(token, host, version) ==
    LET host1 == IF host = "" THEN env ELSE host
        host2 == IF host1 = "" THEN DefaultHost ELSE host1
    IN  [client |-> [Timeout |-> TIMEOUT], token |-> token,
         baseURL |-> host2 \o "/v1", version |-> version]

NewClient(token, host, version) ==
    LET hostEnv == env
        host1   == IF hostEnv # "" THEN hostEnv ELSE host
        host2   == IF host1 = "" THEN DefaultHost ELSE host1
        baseURL == host2 \o "/v1"
    IN  [client |-> [Timeout |-> TIMEOUT], token |-> token,
         baseURL |-> baseURL, version |-> version]

-----------------------------------------------------------------------------
(* http.Header *)

HeaderKeys == { "Content-Type", "Authorization", "User-Agent", "Accept" }

CanonicalMIMEHeaderKey(key) ==
    CASE key = "content-type"  -> "Content-Type"
      [] key = "authorization" -> "Authorization"
      [] key = "user-agent"    -> "User-Agent"
      [] key = "accept"        -> "Accept"
      [] OTHER                 -> key

\* Header.Add in place of Header.Set: the value joins those already there.
HeaderAdd(h, key, value) ==
    [h EXCEPT ![CanonicalMIMEHeaderKey(key)] = Append(@, value)]

\* Header.Set: the key's values are replaced by the single value.
HeaderSet(h, key, value) ==
    [h EXCEPT ![CanonicalMIMEHeaderKey(key)] = <<value>>]

-----------------------------------------------------------------------------
(* The response and its body *)

NoResponse ==
    [id |-> 0, StatusCode |-> 0, Body |-> [data |-> <<>>, reads |-> 0, closed |-> 0]]

\* The response the transport hands over for the server's answer.
ResponseOf(srv) ==
    [id |-> 1, StatusCode |-> srv.status,
     Body |-> [data |-> srv.body, reads |-> 0, closed |-> 0]]

\* A decoder that has read from the body.
ReadBody(r) == [r EXCEPT !.Body.reads = @ + 1]

\* The status decides last, after the attempt to decode a structured error.
checkResponse_DecodeFirst(r) ==
    LET d == Decode(r.Body.data, errorStruct, TRUE)
    IN  IF r.StatusCode >= 200 /\ r.StatusCode <= 299
            THEN [err |-> nil, r |-> r]
        ELSE IF d.err = "nil"
            THEN [err |-> ErrorResponse(r, d.tv.f.error.f.message.s, d.tv.f.error.f.code.n),
                  r |-> ReadBody(r)]
        ELSE IF r.StatusCode = 401 THEN [err |-> ErrNotAuthenticated, r |-> ReadBody(r)]
        ELSE IF r.StatusCode = 403 THEN [err |-> ErrNotAuthorized, r |-> ReadBody(r)]
        ELSE [err |-> Wrap(JSONError(d.err), "Non-standard API error response"),
              r |-> ReadBody(r)]

\* Only 200 counts as success.
checkResponse_Only200(r) ==
    LET d == Decode(r.Body.data, errorStruct, TRUE)
    IN  IF r.StatusCode = 200 THEN [err |-> nil, r |-> r]
        ELSE IF r.StatusCode = 401 THEN [err |-> ErrNotAuthenticated, r |-> r]
        ELSE IF r.StatusCode = 403 THEN [err |-> ErrNotAuthorized, r |-> r]
        ELSE IF d.err # "nil"
            THEN [err |-> Wrap(JSONError(d.err), "Non-standard API error response"),
                  r |-> ReadBody(r)]
        ELSE [err |-> ErrorResponse(r, d.tv.f.error.f.message.s, d.tv.f.error.f.code.n),
              r |-> ReadBody(r)]

\* Redirections (3xx) pass as success.
checkResponse_Below400(r) ==
    LET d == Decode(r.Body.data, errorStruct, TRUE)
    IN  IF r.StatusCode >= 200 /\ r.StatusCode <= 399 THEN [err |-> nil, r |-> r]
        ELSE IF r.StatusCode = 401 THEN [err |-> ErrNotAuthenticated, r |-> r]
        ELSE IF r.StatusCode = 403 THEN [err |-> ErrNotAuthorized, r |-> r]
        ELSE IF d.err # "nil"
            THEN [err |-> Wrap(JSONError(d.err), "Non-standard API error response"),
                  r |-> ReadBody(r)]
        ELSE [err |-> ErrorResponse(r, d.tv.f.error.f.message.s, d.tv.f.error.f.code.n),
              r |-> ReadBody(r)]

\* The decode error goes back bare, not wrapped.
checkResponse_NoWrap(r) ==
    LET d == Decode(r.Body.data, errorStruct, TRUE)
    IN  IF r.StatusCode >= 200 /\ r.StatusCode <= 299 THEN [err |-> nil, r |-> r]
        ELSE IF r.StatusCode = 401 THEN [err |-> ErrNotAuthenticated, r |-> r]
        ELSE IF r.StatusCode = 403 THEN [err |-> ErrNotAuthorized, r |-> r]
        ELSE IF d.err # "nil" THEN [err |-> JSONError(d.err), r |-> ReadBody(r)]
        ELSE [err |-> ErrorResponse(r, d.tv.f.error.f.message.s, d.tv.f.error.f.code.n),
              r |-> ReadBody(r)]

\* checkResponse(r): the error it returns and r with what it read of the body.
checkResponse(r) ==
    LET d == Decode(r.Body.data, errorStruct, TRUE)
    IN  IF r.StatusCode >= 200 /\ r.StatusCode <= 299 THEN [err |-> nil, r |-> r]
        ELSE IF r.StatusCode = 401 THEN [err |-> ErrNotAuthenticated, r |-> r]
        ELSE IF r.StatusCode = 403 THEN [err |-> ErrNotAuthorized, r |-> r]
        ELSE IF d.err # "nil"
            THEN [err |-> Wrap(JSONError(d.err), "Non-standard API error response"),
                  r |-> ReadBody(r)]
        ELSE [err |-> ErrorResponse(r, d.tv.f.error.f.message.s, d.tv.f.error.f.code.n),
              r |-> ReadBody(r)]

-----------------------------------------------------------------------------
(* Inputs *)

\* A caller's target type: a struct with a string and an int field,
\* struct { Message string `json:"message"`; Code int `json:"code"` }.
Target(m, c) == TStruct([message |-> TString(m), code |-> TInt(c)])

\* v: nil, a pointer to a Target (zero or already filled), or a Target
\* passed by value.
Targets ==
    { [kind |-> "nil", init |-> Target("", 0)],
      [kind |-> "ptr", init |-> Target("", 0)],
      [kind |-> "ptr", init |-> Target("old", 1)],
      [kind |-> "nonptr", init |-> Target("old", 1)] }

Statuses == { 100, 199, 200, 204, 299, 300, 401, 402, 403, 500 }

TransportFailure == [fail |-> TRUE, status |-> 0, body |-> <<>>, closeErr |-> FALSE]

Answers(statuses, bodies, closeErrs) ==
    { [fail |-> FALSE, status |-> s, body |-> b, closeErr |-> ce] :
        s \in statuses, b \in bodies, ce \in closeErrs }

\* The values a caller may have put under a header key before the call.
HeaderValues == { <<>>, <<"x">>, <<"x", "y">> }

NoHeaders == [k \in HeaderKeys |-> <<>>]

EnvHosts == { "", "https://example.test", "http://localhost:8080" }
Hosts    == { "", "https://example.test", "https://h.test" }
Tokens   == { "t0k3n", "" }
Versions == { "0.17.0", "dev" }

-----------------------------------------------------------------------------
(* The program: NewClient, then one call of Do *)

InitWith(envs, argss, targets, servers) ==
    /\ env \in envs
    /\ args \in argss
    /\ client = NoClient
    /\ req = [Header |-> args.header]
    /\ v \in targets
    /\ out = v.init
    /\ server \in servers
    /\ resp = NoResponse
    /\ pc = "start"
    /\ err = nil
    /\ ret = Error("pending")
    /\ wire = <<>>
    /\ trace = <<>>

\* The runs that exercise Do's handling of the response.
Init ==
    InitWith({ "https://example.test" },
             { [token |-> "t0k3n", host |-> "", version |-> "0.17.0", header |-> NoHeaders] },
             Targets,
             { TransportFailure } \cup Answers(Statuses, Bodies, BOOLEAN))

\* The runs that exercise the construction of the client and the headers.
InitClient ==
    InitWith(EnvHosts,
             [token : Tokens, host : Hosts, version : Versions,
              header : [HeaderKeys -> HeaderValues]],
             { [kind |-> "ptr", init |-> Target("", 0)] },
             { TransportFailure }
                \cup Answers({ 200, 401 }, { <<>> }, { FALSE })
                \cup Answers({ 500 }, { ErrorBody(Str("m"), Num(7, "int")) }, { FALSE }))

NewClient_Call ==
    /\ pc = "start"
    /\ client' = NewClient(args.token, args.host, args.version)
    /\ pc' = "built"
    /\ UNCHANGED <<env, args, req, v, out, server, resp, err, ret, wire, trace>>

Do_SetHeaders ==
    /\ pc = "built"
    /\ req' = [req EXCEPT !.Header =
                 HeaderSet(HeaderSet(HeaderSet(@,
                     "Content-Type", "application/json"),
                     "Authorization", "Token " \o client.token),
                     "User-Agent", "k6cloud/" \o client.version)]
    /\ pc' = "headers"
    /\ UNCHANGED <<env, args, client, v, out, server, resp, err, ret, wire, trace>>

\* A failed exchange is tried a second time before the error goes back.
Do_Transport_Retry ==
    /\ pc = "headers"
    /\ IF server.fail
         THEN /\ wire' = wire \o <<req.Header, req.Header>>
              /\ trace' = trace \o <<"transport", "transport">>
              /\ err' = TransportError
              /\ ret' = TransportError
              /\ pc' = "returned"
              /\ resp' = resp
         ELSE /\ wire' = Append(wire, req.Header)
              /\ trace' = Append(trace, "transport")
              /\ err' = nil
              /\ resp' = ResponseOf(server)
              /\ pc' = "response"
              /\ ret' = ret
    /\ UNCHANGED <<env, args, client, req, v, out, server>>

\* resp, err := c.client.Do(req); if err != nil { return err }
Do_Transport ==
    /\ pc = "headers"
    /\ wire' = Append(wire, req.Header)
    /\ trace' = Append(trace, "transport")
    /\ IF server.fail
         THEN /\ err' = TransportError
              /\ ret' = TransportError
              /\ pc' = "returned"
              /\ resp' = resp
         ELSE /\ err' = nil
              /\ resp' = ResponseOf(server)
              /\ pc' = "response"
              /\ ret' = ret
    /\ UNCHANGED <<env, args, client, req, v, out, server>>

\* The deferred function: resp.Body.Close(), and log.Errorln(err) when it fails.
DeferredClose(r) ==
    [r     |-> [r EXCEPT !.Body.closed = @ + 1],
     trace |-> IF server.closeErr THEN <<"close", "log">> ELSE <<"close">>]

\* return e, with the deferred function run on the way out.
Return(e, r, events) ==
    LET d == DeferredClose(r)
    IN  /\ ret' = e
        /\ resp' = d.r
        /\ trace' = trace \o events \o d.trace
        /\ pc' = "returned"

\* What checkResponse did, as events: the classification, and a read of the body.
CheckEvents(before, after) ==
    IF after.Body.reads > before.Body.reads THEN <<"check", "read">> ELSE <<"check">>

\* No defer: the body is closed only at the end of Do, which the early
\* return skips.
Do_CheckResponse_NoDefer ==
    /\ pc = "response"
    /\ LET c == checkResponse(resp)
       IN  /\ err' = c.err
           /\ IF c.err # nil
                THEN /\ ret' = c.err
                     /\ resp' = c.r
                     /\ trace' = trace \o CheckEvents(resp, c.r)
                     /\ pc' = "returned"
                ELSE /\ resp' = c.r
                     /\ trace' = trace \o CheckEvents(resp, c.r)
                     /\ pc' = "checked"
                     /\ ret' = ret
    /\ UNCHANGED <<env, args, client, req, v, out, server, wire>>

\* if err = checkResponse(resp); err != nil { return err }
Do_CheckResponse ==
    /\ pc = "response"
    /\ LET c == checkResponse(resp)
       IN  /\ err' = c.err
           /\ IF c.err # nil
                THEN Return(c.err, c.r, CheckEvents(resp, c.r))
                ELSE /\ resp' = c.r
                     /\ trace' = trace \o CheckEvents(resp, c.r)
                     /\ pc' = "checked"
                     /\ ret' = ret
    /\ UNCHANGED <<env, args, client, req, v, out, server, wire>>

\* The end of input inside a value is dropped too.
IgnoreEOF_Unexpected(e) ==
    IF e.kind \in {"io.EOF", "io.ErrUnexpectedEOF"} THEN nil ELSE e

\* The EOF of an empty body is returned like any other decode error.
IgnoreEOF_Never(e) == e

\* if err == io.EOF { err = nil }
IgnoreEOF(e) == IF e.kind = "io.EOF" THEN nil ELSE e

\* if v != nil { err = json.NewDecoder(resp.Body).Decode(v); ... }; return err
Do_Decode ==
    /\ pc = "checked"
    /\ IF v.kind # "nil"
         THEN LET d == Decode(resp.Body.data, out, v.kind = "ptr")
                  e == IgnoreEOF(JSONError(d.err))
              IN  /\ out' = d.tv
                  /\ err' = e
                  /\ Return(e, ReadBody(resp), <<"read", "decode">>)
         ELSE /\ out' = out
              /\ err' = err
              /\ Return(err, resp, <<>>)
    /\ UNCHANGED <<env, args, client, req, v, server, wire>>

Next ==
    \/ NewClient_Call
    \/ Do_SetHeaders
    \/ Do_Transport
    \/ Do_CheckResponse
    \/ Do_Decode

Spec == Init /\ [][Next]_vars

SpecClient == InitClient /\ [][Next]_vars

-----------------------------------------------------------------------------
(* Vocabulary of the properties *)

Returned    == pc = "returned"
GotResponse == ~server.fail
Is2xx       == server.status >= 200 /\ server.status <= 299
\* Neither success nor one of the two sentinel statuses.
OtherStatus == ~Is2xx /\ server.status \notin {401, 403}

Count(events, e) == Cardinality({ i \in DOMAIN events : events[i] = e })

\* The status codes of HTTP, and the response in hand had it come with status s.
StatusCodes   == 100..599
WithStatus(s) == [resp EXCEPT !.StatusCode = s]

IsErrorResponse(e, message, code) ==
    /\ e.kind = "ErrorResponse"
    /\ e.Message = message
    /\ e.Code = code
    /\ e.Response = resp.id
    /\ resp.id # 0

IsWrapped(e, cause) ==
    /\ e.kind = "Wrapped"
    /\ e.text = "Non-standard API error response"
    /\ e.cause.kind = cause

TargetUntouched == out = v.init /\ Count(trace, "decode") = 0

-----------------------------------------------------------------------------
(* C1 *)

\* C1: whenever the transport returned a response, the body has been closed
\* exactly once when Do returns (never before the return, never twice), on
\* every exit path; a failing Close is logged and the value returned is the
\* one Do computed, not the Close error.
C1_BodyClosedExactlyOnce ==
    /\ resp.Body.closed = Count(trace, "close")
    /\ (GotResponse /\ Returned) => resp.Body.closed = 1
    /\ ~Returned => resp.Body.closed = 0
    /\ server.fail => resp.Body.closed = 0
    /\ (GotResponse /\ Returned) =>
          /\ ret = err
          /\ ret.kind # "close"
          /\ Count(trace, "log") = (IF server.closeErr THEN 1 ELSE 0)

\* A structured error came back, Close failed, and Do has returned.
C1_Witness ==
    /\ Returned /\ GotResponse /\ server.closeErr
    /\ ret.kind = "ErrorResponse"
    /\ resp.Body.closed = 1

-----------------------------------------------------------------------------
(* C2 *)

\* C2: for a status in [200,299], whatever the body, checkResponse returns
\* nil (Do goes on past the classification and returns no classification
\* error), and so it does for every status code from 200 to 299 put on the
\* response in hand; with a nil v, Do returns nil and the body is never read
\* nor decoded.
C2_SuccessStatusAndNilTarget ==
    /\ (GotResponse /\ Is2xx /\ pc = "response") => checkResponse(resp).err = nil
    /\ pc = "response" =>
          \A s \in 200..299 :
              /\ checkResponse(WithStatus(s)).err = nil
              /\ checkResponse(WithStatus(s)).r.Body.reads = 0
    /\ (GotResponse /\ Is2xx /\ pc = "checked") => err = nil /\ resp.Body.reads = 0
    /\ (GotResponse /\ Is2xx /\ Returned) =>
          /\ ret.kind \notin {"ErrNotAuthenticated", "ErrNotAuthorized",
                              "ErrorResponse", "Wrapped", "transport"}
          /\ Count(trace, "check") = 1
    /\ (GotResponse /\ Is2xx /\ Returned /\ v.kind = "nil") =>
          /\ ret = nil
          /\ resp.Body.reads = 0
          /\ Count(trace, "read") = 0
          /\ TargetUntouched

\* Status 299 with a body that is no JSON, v nil, and Do has returned.
C2_Witness ==
    /\ Returned /\ GotResponse /\ server.status = 299
    /\ server.body = <<Junk>> /\ v.kind = "nil" /\ ret = nil

-----------------------------------------------------------------------------
(* C3 *)

\* C3: status 401 makes Do return exactly ErrNotAuthenticated and status 403
\* exactly ErrNotAuthorized, for every body and every v; the body is never
\* read, v is never decoded into.
C3_SentinelStatuses ==
    (GotResponse /\ Returned /\ server.status \in {401, 403}) =>
        /\ server.status = 401 => ret = ErrNotAuthenticated
        /\ server.status = 403 => ret = ErrNotAuthorized
        /\ ret.kind \notin {"ErrorResponse", "Wrapped"}
        /\ resp.Body.reads = 0
        /\ Count(trace, "read") = 0
        /\ TargetUntouched

\* Status 401 with a well-formed structured error body.
C3_Witness ==
    /\ Returned /\ server.status = 401
    /\ server.body = ErrorBody(Str("m"), Num(7, "int"))
    /\ v.kind = "ptr"
    /\ ret = ErrNotAuthenticated

-----------------------------------------------------------------------------
(* C4 *)

\* C4: for a status outside [200,299] other than 401 and 403 (1xx and 3xx
\* included), the body {"error":{"message":m,"code":c}} makes Do return an
\* ErrorResponse with Message m, Code c and the response itself; a message
\* or code missing from the error object leaves "" or 0; v is never decoded
\* into.  The same holds of checkResponse for every such status code from
\* 100 to 599.
C4_StructuredError ==
    /\ (GotResponse /\ Returned /\ OtherStatus) =>
        /\ \A m \in Messages, c \in Codes :
              server.body = ErrorBody(Str(m), Num(c, "int")) => IsErrorResponse(ret, m, c)
        /\ server.body = << LBrace, Str("error"), Colon,
                            LBrace, Str("message"), Colon, Str("m"), RBrace, RBrace >>
              => IsErrorResponse(ret, "m", 0)
        /\ server.body = << LBrace, Str("error"), Colon,
                            LBrace, Str("code"), Colon, Num(7, "int"), RBrace, RBrace >>
              => IsErrorResponse(ret, "", 7)
        /\ server.body = << LBrace, Str("error"), Colon, LBrace, RBrace, RBrace >>
              => IsErrorResponse(ret, "", 0)
        /\ TargetUntouched
    /\ (pc = "response" /\ server.body = ErrorBody(Str("m"), Num(7, "int"))) =>
          \A s \in StatusCodes \ ((200..299) \cup {401, 403}) :
              IsErrorResponse(checkResponse(WithStatus(s)).err, "m", 7)

\* Status 300 with {"error":{"message":"m","code":7}}.
C4_Witness ==
    /\ Returned /\ server.status = 300
    /\ server.body = ErrorBody(Str("m"), Num(7, "int"))
    /\ ret.kind = "ErrorResponse" /\ ret.Code = 7

-----------------------------------------------------------------------------
(* C5 *)

\* The kinds of body the property names: plain text, malformed JSON, an empty
\* body, and well-formed JSON without an "error" object.
PlainText      == { <<Junk>>, <<Junk, Junk, Junk>> }
MalformedJSON  == { <<LBrace>>, <<LBrace, Str("error")>>, <<LBrace, Comma>>, <<RBrace>>,
                    << LBrace, Str("error"), Colon, Num(7, "int"), Comma, RBrace >>,
                    << LBrace, Str("error"), Colon, LBrace, Str("message"), Colon, Str("m") >> }
NoErrorObject  == { <<LBrace, RBrace>>,
                    << LBrace, Str("foo"), Colon, Num(1, "int"), RBrace >> }
\* Well-formed JSON in which a value has another type than the shape asks.
WrongType      == { <<Str("m")>>, <<Num(7, "int")>>,
                    << LBrace, Str("error"), Colon, Num(7, "int"), RBrace >>,
                    << LBrace, Str("error"), Colon, Str("m"), RBrace >>,
                    << LBrace, Str("error"), Colon, LBrack, RBrack, RBrace >>,
                    ErrorBody(Num(7, "int"), Num(7, "int")),
                    ErrorBody(Str("m"), Str("7")),
                    ErrorBody(Str("m"), Num(7, "frac")),
                    ErrorBody(Str("m"), Num(7, "huge")),
                    ErrorBody(Str("m"), True) }

\* C5 as stated: every listed deviation from the expected shape, the
\* well-formed JSON without an "error" object included, gives the wrapped
\* error and never an ErrorResponse.
C5_AnyDeviationIsWrapped ==
    (GotResponse /\ Returned /\ OtherStatus
       /\ server.body \in PlainText \cup MalformedJSON \cup {<<>>} \cup NoErrorObject) =>
        /\ ret.kind = "Wrapped"
        /\ ret.kind # "ErrorResponse"

\* C5 (amended): for a status outside [200,299] other than 401 and 403, Do
\* returns the wrapped "Non-standard API error response" error, with the
\* decode error as its cause, exactly when the decode of the body into the
\* error structure fails: io.EOF for an empty or white-space-only body, a
\* SyntaxError for plain text and malformed JSON, io.ErrUnexpectedEOF for
\* JSON cut short, an UnmarshalTypeError for a value of the wrong type.
\* Well-formed JSON that only lacks the "error" object ({}, {"foo":1}, null)
\* decodes and gives an ErrorResponse with Message "" and Code 0.
C5_DecodeFailureIsWrapped ==
    (GotResponse /\ Returned /\ OtherStatus) =>
        /\ ret.kind \in {"Wrapped", "ErrorResponse"}
        /\ ret.kind = "Wrapped" <=> Decode(server.body, errorStruct, TRUE).err # "nil"
        /\ ret.kind = "Wrapped" =>
              IsWrapped(ret, Decode(server.body, errorStruct, TRUE).err)
        /\ NonSpace(server.body) = <<>> => IsWrapped(ret, "io.EOF")
        /\ server.body \in PlainText => IsWrapped(ret, "SyntaxError")
        /\ server.body \in MalformedJSON =>
              \/ IsWrapped(ret, "SyntaxError")
              \/ IsWrapped(ret, "io.ErrUnexpectedEOF")
        /\ server.body \in WrongType => IsWrapped(ret, "UnmarshalTypeError")
        /\ server.body \in NoErrorObject \cup {<<Null>>} => IsErrorResponse(ret, "", 0)
        /\ TargetUntouched

\* Status 500 with the body {}: an ErrorResponse, not the wrapped error.
C5_Witness ==
    /\ Returned /\ server.status = 500
    /\ server.body = <<LBrace, RBrace>>
    /\ ret.kind = "ErrorResponse"

-----------------------------------------------------------------------------
(* C6 *)

\* C6: a 2xx status, an empty body and a non-nil v: Do returns nil and the
\* target keeps the value it had.
C6_EmptyBodyIsSuccess ==
    (GotResponse /\ Returned /\ Is2xx /\ server.body = <<>> /\ v.kind # "nil") =>
        /\ ret = nil
        /\ out = v.init

\* Status 200, empty body, v a pointer to a filled target; the decoder ran.
C6_Witness ==
    /\ Returned /\ server.status = 200 /\ server.body = <<>>
    /\ v = [kind |-> "ptr", init |-> Target("old", 1)]
    /\ Count(trace, "decode") = 1
    /\ ret = nil

-----------------------------------------------------------------------------
(* C7 *)

MandatedHeaders == { "Content-Type", "Authorization", "User-Agent" }

\* C7: every request handed to the transport carries Content-Type
\* "application/json", Authorization "Token " + the client's token and
\* User-Agent "k6cloud/" + the client's version, each as the key's only
\* value, whatever the caller had put under these keys; the other headers
\* are as the caller set them.
C7_MandatedHeaders ==
    /\ pc \in {"response", "checked", "returned"} => Len(wire) = 1
    /\ \A i \in DOMAIN wire :
          /\ wire[i]["Content-Type"] = << "application/json" >>
          /\ wire[i]["Authorization"] = << "Token " \o client.token >>
          /\ wire[i]["User-Agent"] = << "k6cloud/" \o client.version >>
          /\ client.token = args.token
          /\ client.version = args.version
          /\ \A k \in HeaderKeys \ MandatedHeaders : wire[i][k] = args.header[k]

\* The caller had set several Authorization values, one Content-Type and an
\* Accept header; the request has reached the transport.
C7_Witness ==
    /\ Len(wire) = 1
    /\ args.header["Authorization"] = << "x", "y" >>
    /\ args.header["Content-Type"] = << "x" >>
    /\ args.header["User-Agent"] = << >>
    /\ args.header["Accept"] = << "x" >>
    /\ wire[1]["Accept"] = << "x" >>

-----------------------------------------------------------------------------
(* C8 *)

\* C8: the host is K6CLOUD_HOST when set and not empty, whatever the host
\* argument; otherwise the host argument when not empty; otherwise
\* https://ingest.loadimpact.com; the base URL is that host followed by /v1.
C8_HostResolution ==
    pc # "start" =>
        /\ client.baseURL =
              (IF env # "" THEN env
               ELSE IF args.host # "" THEN args.host
               ELSE "https://ingest.loadimpact.com") \o "/v1"
        /\ (env = "https://example.test" /\ args.host = "")
              => client.baseURL = "https://example.test/v1"
        /\ (env = "" /\ args.host = "")
              => client.baseURL = "https://ingest.loadimpact.com/v1"

\* The environment and the argument name different hosts; the client is built.
C8_Witness ==
    /\ pc = "built"
    /\ env = "http://localhost:8080"
    /\ args.host = "https://h.test"
    /\ client.baseURL = "http://localhost:8080/v1"

-----------------------------------------------------------------------------
(* C9 *)

\* C9 as stated: a 2xx status, a non-nil v and a non-empty body that cannot
\* be decoded into v make Do return the decode failure.
C9_NonEmptyUndecodableIsError ==
    (GotResponse /\ Returned /\ Is2xx /\ v.kind # "nil" /\ server.body # <<>>
       /\ Decode(server.body, v.init, v.kind = "ptr").err # "nil") =>
        /\ ret # nil
        /\ ret = JSONError(Decode(server.body, v.init, v.kind = "ptr").err)

\* C9 (amended): a 2xx status, a non-nil v and a body with at least one
\* token that is not white space and that cannot be decoded into v make Do
\* return the decode failure; a body of white space only is end of input,
\* like the empty body, and Do returns nil.  io.EOF is the only decode
\* outcome turned into nil: a nil return means the decode succeeded or met
\* end of input before any value.
C9_DecodeFailureIsReturned ==
    (GotResponse /\ Returned /\ Is2xx /\ v.kind # "nil") =>
        LET d == Decode(server.body, v.init, v.kind = "ptr")
        IN  /\ (NonSpace(server.body) # <<>> /\ d.err # "nil") =>
                  ret # nil /\ ret = JSONError(d.err)
            /\ NonSpace(server.body) = <<>> => ret = nil
            /\ ret = nil => d.err \in {"nil", "io.EOF"}
            /\ server.body \in PlainText => ret.kind = "SyntaxError"
            /\ server.body \in {<<LBrace>>, <<LBrace, Str("m")>>}
                  => ret.kind = "io.ErrUnexpectedEOF"
            /\ (v.kind = "ptr" /\ server.body \in
                   { <<Str("m")>>, <<Num(7, "int")>>,
                     FlatBody(Num(7, "int"), Num(7, "int")), FlatBody(Str("m"), Str("7")) })
                  => ret.kind = "UnmarshalTypeError"
            /\ (v.kind = "nonptr" /\ server.body = <<LBrace, RBrace>>)
                  => ret.kind = "InvalidUnmarshalError"

\* Status 200 and a JSON object cut short: the decode failure came back.
C9_Witness ==
    /\ Returned /\ server.status = 200 /\ v.kind = "ptr"
    /\ server.body = <<LBrace, Str("m")>>
    /\ ret.kind = "io.ErrUnexpectedEOF"

-----------------------------------------------------------------------------
(* C10 *)

\* C10: Do calls the transport exactly once and never again; a transport
\* failure is returned as it is, with no classification, no decode and no
\* Close; with a response, the classification comes before any read or
\* decode of the body, and v is decoded into only after a classification
\* that succeeded.
C10_OneCallClassifyThenDecode ==
    /\ Count(trace, "transport") = Len(wire)
    /\ Len(wire) <= 1
    /\ Returned => Len(wire) = 1
    /\ (Returned /\ server.fail) =>
          /\ ret = TransportError
          /\ trace = << "transport" >>
          /\ resp = NoResponse
          /\ out = v.init
    /\ \A i \in DOMAIN trace :
          trace[i] \in {"read", "decode"} => \E j \in 1..(i - 1) : trace[j] = "check"
    /\ Count(trace, "decode") <= 1
    /\ Count(trace, "decode") = 1 => (GotResponse /\ Is2xx /\ v.kind # "nil")
    /\ out # v.init => Count(trace, "decode") = 1

\* The transport failed and Do has returned its error.
C10_Witness ==
    /\ Returned /\ server.fail
    /\ ret = TransportError
    /\ Len(wire) = 1

=============================================================================
